---- MODULE Spec2Model ----
(* Model of the legacy wallet container codec:                              *)
(* src/wallet_legacy/WalletLegacySerializer.cpp.                            *)
(*                                                                          *)
(* Every fixed-width wire field (uint32 version, 8-byte iv, uint64          *)
(* timestamp, 32-byte key, bool, varint length) is one symbol of the        *)
(* stream; symbols of the encrypted payload are two bits wide, and the      *)
(* stream cipher is an XOR with a keystream that depends on the password,   *)
(* the iv and the position.                                                 *)
EXTENDS Integers, Sequences, FiniteSets, TLC

\* ------------------------------------------------------------------ bounds
MaxOps == 3          \* operations in one behaviour
MaxCacheLen == 1     \* longest cache blob handed to serialize

\* ------------------------------------------------------------- value sets
Byte == 0..3
Passwords == {0, 1}
IVs == {0, 1}
History == {0, 1}
CacheStrings == {[i \in 1..n |-> 1] : n \in 0..MaxCacheLen}

Xor(a, b) == (((a % 2) + (b % 2)) % 2) + 2 * (((a \div 2) + (b \div 2)) % 2)

\* ------------------------------------------------- crypto (collaborators)
NULL_SECRET_KEY == 0

\* sc_check of secret_key_to_public_key: symbol 3 is not a reduced scalar
ScalarValid(sec) == sec # 3

\* secret_key_to_public_key for a valid scalar
PubOf(sec) == sec + 1

\* Crypto::check_key: symbol 0 is not a point of the curve
check_key(pub) == pub # 0

\* TRUE when throwIfKeysMissmatch(sec, pub) throws WRONG_PASSWORD
throwIfKeysMissmatch(sec, pub) == ~ScalarValid(sec) \/ PubOf(sec) # pub

\* generate_chacha8_key + chacha8 keystream symbol at position i
KeyStream(password, iv, i) == ((password + 1) * i + iv + password) % 4

chacha8(data, password, iv) ==
  [i \in 1..Len(data) |-> Xor(data[i], KeyStream(password, iv, i))]

\* ---------------------------------------------- transaction-history codec
CurrentMark == 2
LegacyMark == 1

\* serializer(transactionsCache, "details"), writing
EncodeDetails(h) == <<CurrentMark, h>>

DecodeLayout(plain, pos, mark) ==
  IF Len(plain) < pos + 1 \/ plain[pos] # mark
    THEN [ok |-> FALSE, h |-> 0, next |-> pos]
    ELSE [ok |-> TRUE, h |-> plain[pos + 1], next |-> pos + 2]

\* serializer(transactionsCache, "details"), reading
DecodeDetails(plain, pos) == DecodeLayout(plain, pos, CurrentMark)

deserializeLegacyV1(plain, pos) == DecodeLayout(plain, pos, LegacyMark)

\* ------------------------------------------------------ binary serializer
\* serializer.binary(cache, "cache"), writing: length, then the bytes
EncodeBinary(s) == <<Len(s)>> \o s

\* serializer.binary(cache, "cache"), reading at pos
ReadBinary(plain, pos) ==
  IF Len(plain) < pos THEN [ok |-> FALSE, value |-> <<>>]
  ELSE IF Len(plain) < pos + plain[pos] THEN [ok |-> FALSE, value |-> <<>>]
  ELSE [ok |-> TRUE, value |-> SubSeq(plain, pos + 1, pos + plain[pos])]

\* KeysStorage::serialize, writing
EncodeKeys(k) ==
  <<k.createtime, k.spendPublicKey, k.spendSecretKey, k.viewPublicKey, k.viewSecretKey>>

KeysLen == 5

\* ------------------------------------------------------------------ state
VARIABLES account, transactionsCache, stream, cache, last, written, ops

vars == <<account, transactionsCache, stream, cache, last, written, ops>>

MkAccount(ts, spub, ssec, vpub, vsec) ==
  [createtime |-> ts, spendPublicKey |-> spub, spendSecretKey |-> ssec,
   viewPublicKey |-> vpub, viewSecretKey |-> vsec]

\* accounts the wallet hands to the serializer: the view pair corresponds,
\* the spend pair corresponds or the spend secret is the null sentinel
ValidAccounts ==
  {MkAccount(ts, spub, ssec, PubOf(vsec), vsec) :
     ts \in {1}, vsec \in {1},
     <<spub, ssec>> \in {p \in Byte \X Byte :
        \/ p[2] # NULL_SECRET_KEY /\ ~throwIfKeysMissmatch(p[2], p[1])
        \/ p[2] = NULL_SECRET_KEY /\ check_key(p[1])}}

\* ------------------------------------------------------------------ write
\* the constructor's walletSerializationVersion
walletSerializationVersion == 1

\* saveKeys: the KeysStorage record of the account, serialized
saveKeys(acc) == EncodeKeys(acc)

\* PlainArchive with the details block written whatever the flag says
PlainArchive_AlwaysDetails(acc, tc, saveDetailed, c) ==
  saveKeys(acc)
    \o <<IF saveDetailed THEN 1 ELSE 0>>
    \o EncodeDetails(tc)
    \o EncodeBinary(c)

\* the plaintext archive serialize builds before encrypting it
PlainArchive(acc, tc, saveDetailed, c) ==
  saveKeys(acc)
    \o <<IF saveDetailed THEN 1 ELSE 0>>
    \o (IF saveDetailed THEN EncodeDetails(tc) ELSE <<>>)
    \o EncodeBinary(c)

\* encrypt: cipher of the same size as plain, under the key of the password
encrypt(plain, password, iv) == chacha8(plain, password, iv)

\* the "wallet" object: version, iv, data (length-prefixed)
serialize(acc, tc, password, saveDetailed, c, iv) ==
  LET cipher == encrypt(PlainArchive(acc, tc, saveDetailed, c), password, iv)
  IN  <<walletSerializationVersion, iv, Len(cipher)>> \o cipher

\* ------------------------------------------------------------------- read
\* ReadEnvelope that takes whatever is left of a data field cut short
ReadEnvelope_ShortData(s) ==
  IF Len(s) < 3
    THEN [ok |-> FALSE, version |-> 0, iv |-> 0, cipher |-> <<>>]
    ELSE [ok |-> TRUE, version |-> s[1], iv |-> s[2],
          cipher |-> SubSeq(s, 4, IF Len(s) < 3 + s[3] THEN Len(s) ELSE 3 + s[3])]

\* the "wallet" object read back: version, iv, data
ReadEnvelope(s) ==
  IF Len(s) < 3 \/ Len(s) < 3 + s[3]
    THEN [ok |-> FALSE, version |-> 0, iv |-> 0, cipher |-> <<>>]
    ELSE [ok |-> TRUE, version |-> s[1], iv |-> s[2],
          cipher |-> SubSeq(s, 4, 3 + s[3])]

decrypt(cipher, iv, password) == chacha8(cipher, password, iv)

\* loadKeys without the try/catch: the reader's exception escapes as it is
loadKeys_NoCatch(plain, acc) ==
  IF Len(plain) < KeysLen
    THEN [err |-> "runtime_error", account |-> acc]
    ELSE [err |-> "ok",
          account |-> MkAccount(plain[1], plain[2], plain[3], plain[4], plain[5])]

\* loadKeys: the key block decoded from the plaintext; a reader exception is
\* rethrown as WRONG_PASSWORD, otherwise the account receives the keys
loadKeys(plain, acc) ==
  IF Len(plain) < KeysLen
    THEN [err |-> "WRONG_PASSWORD", account |-> acc]
    ELSE [err |-> "ok",
          account |-> MkAccount(plain[1], plain[2], plain[3], plain[4], plain[5])]

\* KeysVerified without the view-pair check
KeysVerified_NoViewCheck(acc) ==
  IF acc.spendSecretKey # NULL_SECRET_KEY
    THEN ~throwIfKeysMissmatch(acc.spendSecretKey, acc.spendPublicKey)
    ELSE check_key(acc.spendPublicKey)

\* KeysVerified without the watch-only branch
KeysVerified_NoWatchOnly(acc) ==
  /\ ~throwIfKeysMissmatch(acc.viewSecretKey, acc.viewPublicKey)
  /\ ~throwIfKeysMissmatch(acc.spendSecretKey, acc.spendPublicKey)

\* the view-pair and spend-pair checks of deserialize
KeysVerified(acc) ==
  /\ ~throwIfKeysMissmatch(acc.viewSecretKey, acc.viewPublicKey)
  /\ IF acc.spendSecretKey # NULL_SECRET_KEY
       THEN ~throwIfKeysMissmatch(acc.spendSecretKey, acc.spendPublicKey)
       ELSE check_key(acc.spendPublicKey)

\* the dispatcher testing for the version it knows as current
DetailsDecoderFor_OnlyTwoCurrent(version) ==
  IF version = 2 THEN "current" ELSE "legacy"

\* the decoder the dispatcher selects for a details block
DetailsDecoderFor(version) == IF version = 1 THEN "legacy" ELSE "current"

\* has_details, the details block and the cache blob, read after the keys
ReadTail(plain, version, tc, c) ==
  IF Len(plain) < KeysLen + 1
    THEN [err |-> "runtime_error", tc |-> tc, cache |-> c, decoder |-> "none"]
    ELSE
      LET detailsSaved == plain[KeysLen + 1] # 0
          decoder == IF detailsSaved THEN DetailsDecoderFor(version) ELSE "none"
          d == IF decoder = "legacy" THEN deserializeLegacyV1(plain, KeysLen + 2)
               ELSE IF decoder = "current" THEN DecodeDetails(plain, KeysLen + 2)
               ELSE [ok |-> TRUE, h |-> tc, next |-> KeysLen + 2]
          b == ReadBinary(plain, d.next)
      IN  IF ~d.ok
            THEN [err |-> "runtime_error", tc |-> tc, cache |-> c, decoder |-> decoder]
          ELSE IF ~b.ok
            THEN [err |-> "runtime_error", tc |-> d.h, cache |-> c, decoder |-> decoder]
          ELSE [err |-> "ok", tc |-> d.h, cache |-> b.value, decoder |-> decoder]

\* deserialize with has_details, details and cache read before the key checks
deserialize_TailFirst(s, password, acc, tc, c) ==
  LET env == ReadEnvelope(s)
      plain == decrypt(env.cipher, env.iv, password)
      k == loadKeys(plain, acc)
      t == ReadTail(plain, env.version, tc, c)
  IN  IF ~env.ok
        THEN [err |-> "runtime_error", account |-> acc, tc |-> tc, cache |-> c,
              decoder |-> "none"]
      ELSE IF k.err # "ok"
        THEN [err |-> k.err, account |-> acc, tc |-> tc, cache |-> c,
              decoder |-> "none"]
      ELSE IF t.err # "ok"
        THEN [err |-> t.err, account |-> k.account, tc |-> t.tc, cache |-> t.cache,
              decoder |-> t.decoder]
      ELSE [err |-> IF KeysVerified(k.account) THEN "ok" ELSE "WRONG_PASSWORD",
            account |-> k.account, tc |-> t.tc, cache |-> t.cache,
            decoder |-> t.decoder]

\* deserialize: what the call leaves in the account, the history cache and
\* the caller's cache string, and the error it ends with
deserialize(s, password, acc, tc, c) ==
  LET env == ReadEnvelope(s)
      plain == decrypt(env.cipher, env.iv, password)
      k == loadKeys(plain, acc)
      t == ReadTail(plain, env.version, tc, c)
  IN  IF ~env.ok
        THEN [err |-> "runtime_error", account |-> acc, tc |-> tc, cache |-> c,
              decoder |-> "none"]
      ELSE IF k.err # "ok"
        THEN [err |-> k.err, account |-> acc, tc |-> tc, cache |-> c,
              decoder |-> "none"]
      ELSE IF ~KeysVerified(k.account)
        THEN [err |-> "WRONG_PASSWORD", account |-> k.account, tc |-> tc,
              cache |-> c, decoder |-> "none"]
      ELSE [err |-> t.err, account |-> k.account, tc |-> t.tc, cache |-> t.cache,
            decoder |-> t.decoder]

\* ---------------------------------------------------------------- actions
NoCall ==
  [op |-> "none", password |-> 0, account |-> MkAccount(0, 0, 0, 0, 0), tc |-> 0,
   cache |-> <<>>, err |-> "none", decoder |-> "none"]

NoWrite ==
  [intact |-> FALSE, account |-> MkAccount(0, 0, 0, 0, 0), tc |-> 0, cache |-> <<>>,
   password |-> 0, saveDetailed |-> FALSE]

Init ==
  /\ account \in ValidAccounts
  /\ transactionsCache \in History
  /\ cache = <<1>>
  /\ stream = <<>>
  /\ last = NoCall
  /\ written = NoWrite
  /\ ops = 0

Serialize(password, saveDetailed, c, iv) ==
  /\ ops < MaxOps
  /\ stream' = serialize(account, transactionsCache, password, saveDetailed, c, iv)
  /\ written' = [intact |-> TRUE, account |-> account, tc |-> transactionsCache,
                 cache |-> c, password |-> password, saveDetailed |-> saveDetailed]
  /\ last' = [NoCall EXCEPT !.op = "serialize", !.password = password, !.err = "ok"]
  /\ ops' = ops + 1
  /\ UNCHANGED <<account, transactionsCache, cache>>

Deserialize(password) ==
  /\ ops < MaxOps
  /\ LET r == deserialize(stream, password, account, transactionsCache, cache)
     IN  /\ account' = r.account
         /\ transactionsCache' = r.tc
         /\ cache' = r.cache
         /\ last' = [op |-> "deserialize", password |-> password, account |-> account,
                     tc |-> transactionsCache, cache |-> cache, err |-> r.err,
                     decoder |-> r.decoder]
  /\ ops' = ops + 1
  /\ UNCHANGED <<stream, written>>

\* the written file is cut short before it is read
Truncate(n) ==
  /\ ops < MaxOps /\ written.intact
  /\ n < Len(stream)
  /\ stream' = SubSeq(stream, 1, n)
  /\ written' = [written EXCEPT !.intact = FALSE]
  /\ last' = [NoCall EXCEPT !.op = "tamper"]
  /\ ops' = ops + 1
  /\ UNCHANGED <<account, transactionsCache, cache>>

\* one field of the written file is overwritten before it is read
Overwrite(i, v) ==
  /\ ops < MaxOps /\ written.intact
  /\ i \in 1..Len(stream) /\ stream[i] # v
  /\ stream' = [stream EXCEPT ![i] = v]
  /\ written' = [written EXCEPT !.intact = FALSE]
  /\ last' = [NoCall EXCEPT !.op = "tamper"]
  /\ ops' = ops + 1
  /\ UNCHANGED <<account, transactionsCache, cache>>

Next ==
  \/ \E p \in Passwords, d \in BOOLEAN, c \in CacheStrings, iv \in IVs :
       Serialize(p, d, c, iv)
  \/ \E p \in Passwords : Deserialize(p)
  \/ \E n \in 0..(Len(stream) - 1) : Truncate(n)
  \/ \E i \in 1..Len(stream), v \in Byte : Overwrite(i, v)

Spec == Init /\ [][Next]_vars

\* ------------------------------------------------------------- properties
\* the last operation was a deserialize call (stream is what it read; last
\* holds the password and what the account, history and cache held before)
Read == last.op = "deserialize"

Env == ReadEnvelope(stream)

\* the plaintext the last deserialize decrypted
Plain == decrypt(Env.cipher, Env.iv, last.password)

\* the key block of that plaintext, when it is long enough
KeyBlockRead == Env.ok /\ Len(Plain) >= KeysLen

PlainKeys == MkAccount(Plain[1], Plain[2], Plain[3], Plain[4], Plain[5])

Corresponds(sec, pub) == ScalarValid(sec) /\ PubOf(sec) = pub

Consistent(k) ==
  /\ Corresponds(k.viewSecretKey, k.viewPublicKey)
  /\ \/ k.spendSecretKey # NULL_SECRET_KEY
        /\ Corresponds(k.spendSecretKey, k.spendPublicKey)
     \/ k.spendSecretKey = NULL_SECRET_KEY /\ check_key(k.spendPublicKey)

\* C1: reading an untouched stream with the password it was written with
\* succeeds and yields the keys, creation time, history and cache written.
RoundTrip ==
  (Read /\ written.intact /\ last.password = written.password) =>
    /\ last.err = "ok"
    /\ account = written.account
    /\ cache = written.cache
    /\ (written.saveDetailed => transactionsCache = written.tc)

\* C2: a deserialize call that fails leaves the account as it was before.
CommitAtomicity ==
  (Read /\ last.err # "ok") => account = last.account

\* C3: after a successful deserialize the keys in the account are consistent
\* (view pair corresponds; spend pair corresponds, or the spend secret is
\* null and the spend public key is a curve point), and a decrypted key
\* block that is not consistent ends in WRONG_PASSWORD.
NoSilentAcceptance ==
  Read =>
    /\ (last.err = "ok" => Consistent(account))
    /\ (KeyBlockRead /\ ~Consistent(PlainKeys) => last.err = "WRONG_PASSWORD")

\* a stream that was tampered with, or read with another password, accepted
NoSilentAcceptanceWitness ==
  /\ Read /\ last.err = "ok"
  /\ (~written.intact \/ last.password # written.password)
  /\ account # written.account

\* C4: with a null spend secret the spend pair is accepted exactly when the
\* spend public key is a curve point; with a non-null spend secret exactly
\* when the pair corresponds. A rejection is WRONG_PASSWORD.
WatchOnlyBranch ==
  (Read /\ KeyBlockRead
      /\ Corresponds(PlainKeys.viewSecretKey, PlainKeys.viewPublicKey)) =>
    IF PlainKeys.spendSecretKey = NULL_SECRET_KEY
      THEN last.err = "WRONG_PASSWORD" <=> ~check_key(PlainKeys.spendPublicKey)
      ELSE last.err = "WRONG_PASSWORD" <=>
             ~Corresponds(PlainKeys.spendSecretKey, PlainKeys.spendPublicKey)

\* a watch-only key block whose spend public key is a curve point but not
\* the public key of the null secret, accepted
WatchOnlyBranchWitness ==
  /\ Read /\ KeyBlockRead
  /\ PlainKeys.spendSecretKey = NULL_SECRET_KEY
  /\ check_key(PlainKeys.spendPublicKey)
  /\ PlainKeys.spendPublicKey # PubOf(NULL_SECRET_KEY)
  /\ last.err = "ok"

\* C5: every envelope serialize writes carries a version for which the
\* reader's dispatcher selects the current-layout decoder.
WritersEmitCurrentVersion ==
  last.op = "serialize" => DetailsDecoderFor(Env.version) = "current"

\* C6: once the keys are verified and has_details is read, the legacy
\* decoder runs iff the flag is set and version = 1, the current decoder iff
\* the flag is set and version # 1; without the flag no decoder runs and the
\* outcome does not depend on the version; no version is rejected.
VersionDispatch ==
  (Read /\ KeyBlockRead /\ Consistent(PlainKeys) /\ Len(Plain) > KeysLen) =>
    LET flag == Plain[KeysLen + 1] # 0
    IN  /\ last.decoder = "legacy" <=> (flag /\ Env.version = 1)
        /\ last.decoder = "current" <=> (flag /\ Env.version # 1)
        /\ ~flag => (last.err = "ok" <=> ReadBinary(Plain, KeysLen + 2).ok)
        /\ (flag /\ Env.version # 1) =>
             (last.err = "ok" <=>
                /\ DecodeDetails(Plain, KeysLen + 2).ok
                /\ ReadBinary(Plain, DecodeDetails(Plain, KeysLen + 2).next).ok)

\* a details block read under a version that is neither 1 nor the one the
\* current layout was introduced with
VersionDispatchWitness ==
  /\ Read /\ last.err = "ok"
  /\ last.decoder = "current"
  /\ Env.version \notin {1, 2}

\* the stream ends before the version, the iv, the length of the data field
\* or the last of the bytes that length announces
EnvelopeCutShort == Len(stream) < 3 \/ Len(stream) - 3 < stream[3]

PayloadLayout ==
  /\ last.op = "serialize" =>
       LET p == decrypt(Env.cipher, Env.iv, written.password)
           d == IF written.saveDetailed THEN EncodeDetails(written.tc) ELSE <<>>
       IN  /\ Env.ok
           /\ Len(p) = KeysLen + 1 + Len(d) + 1 + Len(written.cache)
           /\ SubSeq(p, 1, KeysLen) = EncodeKeys(written.account)
           /\ p[KeysLen + 1] # 0 <=> written.saveDetailed
           /\ SubSeq(p, KeysLen + 2, KeysLen + 1 + Len(d)) = d
           /\ SubSeq(p, KeysLen + 2 + Len(d), Len(p)) = EncodeBinary(written.cache)
  /\ (Read /\ last.err = "ok") =>
       IF Plain[KeysLen + 1] = 0
         THEN /\ transactionsCache = last.tc
              /\ cache = ReadBinary(Plain, KeysLen + 2).value
         ELSE /\ transactionsCache = Plain[KeysLen + 3]
              /\ cache = ReadBinary(Plain, KeysLen + 4).value

\* a read without details that changes the caller's cache string while the
\* history keeps a content that no details block of the payload holds
PayloadLayoutWitness ==
  /\ Read /\ last.err = "ok"
  /\ Plain[KeysLen + 1] = 0
  /\ cache # last.cache
  /\ transactionsCache = 1

\* C10: a deserialize call that ends in WRONG_PASSWORD leaves the history
\* cache and the caller's cache string as they were before the call.
VerificationPrecedesOutputs ==
  (Read /\ last.err = "WRONG_PASSWORD") =>
    /\ transactionsCache = last.tc
    /\ cache = last.cache

\* keys loaded and rejected in front of a tail that decodes to other values
VerificationPrecedesOutputsWitness ==
  /\ Read /\ last.err = "WRONG_PASSWORD"
  /\ KeyBlockRead /\ account # last.account
  /\ LET t == ReadTail(Plain, Env.version, last.tc, last.cache)
     IN  t.err = "ok" /\ t.cache # last.cache /\ t.tc # last.tc

====
